---- MODULE Spec2Model ----
(***************************************************************************)
(* Model of src/ledger.py: GroupTransactionCalculator, a ledger of shared  *)
(* purchases (addPerson, addItem, calculateShares) and the settlement      *)
(* search (optimizeTransactions / evaluateState).                          *)
(*                                                                         *)
(* Amounts.  The program computes with Python floats (binary, rounded to    *)
(* nearest).  The model computes on a binary grid: an amount is an integer *)
(* number of units, 0.01 is Cent = 2^10 units.  What the rounding of the   *)
(* floats changes in the program is modelled in two places:                *)
(*   - a division (lines 27, 35, 46, 53) is rounded to the nearest unit,   *)
(*     ties to even, as the float division is rounded to the nearest       *)
(*     float; sums, differences and products of the modelled sizes are     *)
(*     exact on the grid;                                                  *)
(*   - a comparison abs(x) < 0.01 of an x that is exactly 0.01 on the grid *)
(*     goes either way in the program (0.03 - 0.02 < 0.01 is True, 0.02 -  *)
(*     0.01 < 0.01 is False): tieBelow holds, for each person, which way   *)
(*     it goes in a run.                                                   *)
(***************************************************************************)
EXTENDS Integers, Sequences, FiniteSets, TLC

VARIABLES
    personPayments,          \* dict name -> total paid (values)
    personOrder,             \* the insertion order of the keys of personPayments
    itemRecords,             \* list of (buyer, cost, peopleInvolved, isCommon)
    settlementTransactions,  \* list of formatted transactions
    detailedDebts,           \* dict (debtor, creditor) -> owed amount
    owedAmounts,             \* the argument of the optimizeTransactions call (done or to do)
    tieBelow,                \* person -> whether exactly 0.01 compared below 0.01 in that call
    optimized,               \* optimizeTransactions ran after the last addPerson or addItem
    error                    \* the exception the last call raised, or "none"

vars == <<personPayments, personOrder, itemRecords, settlementTransactions,
          detailedDebts, owedAmounts, tieBelow, optimized, error>>

----------------------------------------------------------------------------
(* Bounds of the model *)

\* the number of addItem calls of a run
MaxItems == 2
\* the largest quantity of a participant in the enumerated addItem calls
MaxQty == 2
\* the largest balance, in half cents, of the enumerated optimizer inputs
MaxBal == 6

\* every name, in the order the enumerated dicts have their keys inserted
NameOrder == <<"A", "B", "C", "D">>
Names == {NameOrder[k] : k \in 1..Len(NameOrder)}
\* the names the enumerated ledger calls use
LedgerNames == {"A", "B", "C"}
\* the costs, in cents, of the enumerated addItem calls
CostCents == {0, 2}

----------------------------------------------------------------------------
(* Arithmetic *)

Abs(x) == IF x < 0 THEN -x ELSE x

Min(a, b) == IF a <= b THEN a ELSE b

\* the outcomes of the comparisons with 0.01 of a call: none going below
\* (NoTies), each person's own (TieChoices), or the same for every person
\* (UniformTies)
\* or the same for every person (UniformTies)
NoTies == [n \in Names |-> FALSE]
TieChoices == [Names -> BOOLEAN]
UniformTies == {[n \in Names |-> b] : b \in BOOLEAN}

\* model units per 0.01, and per 0.005
Cent == 2 ^ 10
Half == Cent \div 2

\* a / b of a float a >= 0 by an int b > 0: the quotient rounded to the nearest
\* unit, ties to even
RoundDiv(a, b) ==
    LET q == a \div b
        r == a % b
    IN IF 2 * r < b THEN q
       ELSE IF 2 * r > b THEN q + 1
       ELSE IF q % 2 = 0 THEN q ELSE q + 1

\* the threshold 0.01 below which a balance counts as settled
EPS == Cent

\* float('inf'): larger than every score of the search
Infinity == 1000000

RECURSIVE SumOver(_, _)
SumOver(f, S) ==
    IF S = {} THEN 0
    ELSE LET x == CHOOSE y \in S : TRUE IN f[x] + SumOver(f, S \ {x})

RemoveAt(s, i) == [k \in 1..(Len(s) - 1) |-> IF k < i THEN s[k] ELSE s[k + 1]]

\* the keys of a dict in insertion order (the enumerated dicts insert in NameOrder)
KeysInOrder(d) == SelectSeq(NameOrder, LAMBDA n : n \in DOMAIN d)

EmptyDict == [n \in {} |-> 0]

----------------------------------------------------------------------------
(* addPerson, addItem *)

\* addPerson on the values of personPayments
addPerson(pay, personName) ==
    IF personName \in DOMAIN pay THEN pay
    ELSE [n \in DOMAIN pay \cup {personName} |-> IF n = personName THEN 0 ELSE pay[n]]

\* addPerson on the key order of personPayments
addPersonOrder(order, personName) ==
    IF \E k \in 1..Len(order) : order[k] = personName THEN order
    ELSE Append(order, personName)

\* lines 21-22: every involved person is added, in the dict's order
RECURSIVE addPeople(_, _)
addPeople(pay, keys) ==
    IF keys = <<>> THEN pay ELSE addPeople(addPerson(pay, Head(keys)), Tail(keys))

RECURSIVE addPeopleOrder(_, _)
addPeopleOrder(order, keys) ==
    IF keys = <<>> THEN order
    ELSE addPeopleOrder(addPersonOrder(order, Head(keys)), Tail(keys))

\* sum(peopleInvolved.values())
totalQuantity(peopleInvolved) == SumOver(peopleInvolved, DOMAIN peopleInvolved)

\* Fault variant of addItemRaises: the test of line 33 is missing, and the division
\* of line 35 raises as well
addItemRaisesAs(peopleInvolved, isCommon) ==
    \/ isCommon /\ DOMAIN peopleInvolved = {}
    \/ ~isCommon /\ totalQuantity(peopleInvolved) = 0

\* the division of line 27 raises ZeroDivisionError when the dict is empty;
\* line 33 returns before the division of line 35
addItemRaises(peopleInvolved, isCommon) ==
    isCommon /\ DOMAIN peopleInvolved = {}

\* what a participant owes for one item (share of line 27, amountOwed of line 37)
itemShare(cost, peopleInvolved, isCommon, person) ==
    IF isCommon THEN RoundDiv(cost, Cardinality(DOMAIN peopleInvolved))
    ELSE RoundDiv(cost, totalQuantity(peopleInvolved)) * peopleInvolved[person]

\* Fault variant of debtKeysOf: the test "person != buyer" is missing
debtKeysOfAs(buyer, peopleInvolved) ==
    {<<person, buyer>> : person \in DOMAIN peopleInvolved}

\* the participants whose debt to the buyer lines 28-30 and 36-39 record
debtKeysOf(buyer, peopleInvolved) ==
    {<<person, buyer>> : person \in DOMAIN peopleInvolved \ {buyer}}

\* lines 26-39: detailedDebts after the item, when no exception is raised
addItemDebts(debts, buyer, cost, peopleInvolved, isCommon) ==
    IF ~isCommon /\ totalQuantity(peopleInvolved) = 0 THEN debts
    ELSE LET new == debtKeysOf(buyer, peopleInvolved) IN
         [key \in DOMAIN debts \cup new |->
            (IF key \in DOMAIN debts THEN debts[key] ELSE 0)
            + (IF key \in new THEN itemShare(cost, peopleInvolved, isCommon, key[1]) ELSE 0)]

\* Fault variant of addItemPayments: the involved people are not added
addItemPaymentsAs(pay, buyer, cost, peopleInvolved) ==
    [addPerson(pay, buyer) EXCEPT ![buyer] = @ + cost]

\* personPayments after lines 19-22
addItemPayments(pay, buyer, cost, peopleInvolved) ==
    LET p1 == addPerson(pay, buyer)
        p2 == [p1 EXCEPT ![buyer] = @ + cost]
    IN addPeople(p2, KeysInOrder(peopleInvolved))

\* the names of the enumerated addPerson calls
AddPersonNames == {"B"}

AddPerson ==
    \E personName \in AddPersonNames :
        /\ personPayments' = addPerson(personPayments, personName)
        /\ personOrder' = addPersonOrder(personOrder, personName)
        /\ optimized' = FALSE
        /\ error' = "none"
        /\ owedAmounts' = EmptyDict
        /\ tieBelow' = NoTies
        /\ UNCHANGED <<itemRecords, settlementTransactions, detailedDebts>>

\* the dicts {person: quantity} of the enumerated calls: any quantities for an
\* individual item, quantity 1 for a common item (line 177; a common item never
\* reads the quantities)
PeopleDicts(isCommon) ==
    UNION {[S -> IF isCommon THEN {1} ELSE 0..MaxQty] : S \in SUBSET LedgerNames}

addItem(buyer, cost, peopleInvolved, isCommon) ==
    /\ personPayments' = addItemPayments(personPayments, buyer, cost, peopleInvolved)
    /\ personOrder' = addPeopleOrder(addPersonOrder(personOrder, buyer),
                                     KeysInOrder(peopleInvolved))
    /\ itemRecords' = Append(itemRecords,
            [buyer |-> buyer, cost |-> cost,
             peopleInvolved |-> peopleInvolved, isCommon |-> isCommon])
    /\ IF addItemRaises(peopleInvolved, isCommon)
       THEN /\ error' = "ZeroDivisionError"
            /\ UNCHANGED detailedDebts
       ELSE /\ error' = "none"
            /\ detailedDebts' =
                   addItemDebts(detailedDebts, buyer, cost, peopleInvolved, isCommon)
    /\ optimized' = FALSE
    /\ owedAmounts' = EmptyDict
    /\ tieBelow' = NoTies
    /\ UNCHANGED settlementTransactions

AddItem ==
    /\ Len(itemRecords) < MaxItems
    /\ \E buyer \in LedgerNames, c \in CostCents, isCommon \in BOOLEAN :
         \E peopleInvolved \in PeopleDicts(isCommon) :
            addItem(buyer, c * Cent, peopleInvolved, isCommon)

----------------------------------------------------------------------------
(* calculateShares *)

\* line 46 raises ZeroDivisionError on a common item without participants
calculateSharesRaises(records) ==
    \E k \in 1..Len(records) :
        records[k].isCommon /\ DOMAIN records[k].peopleInvolved = {}

\* Fault variant of recordShare: the buyer of a common item accrues no share
recordShareAs(rec, person) ==
    IF person \notin DOMAIN rec.peopleInvolved THEN 0
    ELSE IF ~rec.isCommon /\ totalQuantity(rec.peopleInvolved) = 0 THEN 0
    ELSE IF rec.isCommon /\ person = rec.buyer THEN 0
    ELSE itemShare(rec.cost, rec.peopleInvolved, rec.isCommon, person)

\* what one record adds to a person's owed amount (lines 45-55)
recordShare(rec, person) ==
    IF person \notin DOMAIN rec.peopleInvolved THEN 0
    ELSE IF ~rec.isCommon /\ totalQuantity(rec.peopleInvolved) = 0 THEN 0
    ELSE itemShare(rec.cost, rec.peopleInvolved, rec.isCommon, person)

RECURSIVE owedAfter(_, _, _)
owedAfter(records, k, person) ==
    IF k = 0 THEN 0
    ELSE owedAfter(records, k - 1, person) + recordShare(records[k], person)

\* the dict calculateShares returns (when it does not raise)
calculateShares(pay, records) ==
    [person \in DOMAIN pay |-> owedAfter(records, Len(records), person)]

CalculateShares ==
    /\ error' = IF calculateSharesRaises(itemRecords) THEN "ZeroDivisionError" ELSE "none"
    /\ UNCHANGED <<personPayments, personOrder, itemRecords, settlementTransactions,
                   detailedDebts, owedAmounts, tieBelow, optimized>>

----------------------------------------------------------------------------
(* optimizeTransactions *)

\* abs(x) < 0.01 for a balance x of person (lines 64, 99, 101)
belowEps(ties, person, x) == Abs(x) < EPS \/ (Abs(x) = EPS /\ ties[person])

\* Fault variant of netBalances: the owed amount is added to the payments
netBalancesAs(pay, owed) ==
    [person \in DOMAIN pay |->
        pay[person] + (IF person \in DOMAIN owed THEN owed[person] ELSE 0)]

\* line 60: the net balances
netBalances(pay, owed) ==
    [person \in DOMAIN pay |->
        pay[person] - (IF person \in DOMAIN owed THEN owed[person] ELSE 0)]

\* lines 60-65: the net balances, those below 0.01 in absolute value set to 0
snappedBalances(pay, owed, ties) ==
    LET balances == netBalances(pay, owed)
    IN [person \in DOMAIN pay |->
            IF belowEps(ties, person, balances[person]) THEN 0 ELSE balances[person]]

\* balances.items(), in the key order of personPayments
balanceItems(order, bal) == [k \in 1..Len(order) |-> <<order[k], bal[order[k]]>>]

\* Fault variant of debtorsList: the test "balance < 0" written "balance != 0"
debtorsListAs(order, bal) == SelectSeq(balanceItems(order, bal), LAMBDA e : e[2] # 0)

\* line 67
debtorsList(order, bal) == SelectSeq(balanceItems(order, bal), LAMBDA e : e[2] < 0)

\* line 68
creditorsList(order, bal) == SelectSeq(balanceItems(order, bal), LAMBDA e : e[2] > 0)

\* f"{amount:.2f}": the amount in whole cents, rounded to the nearest cent.  An
\* amount exactly halfway is rounded up here; Python rounds the binary value of
\* the float, which lies on either side of the half.
Fmt2(amount) == (2 * amount + Cent) \div (2 * Cent)

\* Fault variant of transferAmount: one cent is held back from a transfer of two
\* cents or more
transferAmountAs(debtorAmount, creditorAmount) ==
    LET m == Min(-debtorAmount, creditorAmount)
    IN IF m >= 2 * Cent THEN m - Cent ELSE m

\* line 92: the maximum transferable amount
transferAmount(debtorAmount, creditorAmount) == Min(-debtorAmount, creditorAmount)

\* lines 92-102: the candidate transaction of debtor i and creditor j, and the lists
\* after it.  A transaction keeps the amount that is formatted next to its text.
Move(debtors, creditors, i, j, ties) ==
    LET amount == transferAmount(debtors[i][2], creditors[j][2])
        d1 == [debtors EXCEPT ![i] = <<debtors[i][1], debtors[i][2] + amount>>]
        c1 == [creditors EXCEPT ![j] = <<creditors[j][1], creditors[j][2] - amount>>]
    IN [debtors |-> IF belowEps(ties, d1[i][1], d1[i][2]) THEN RemoveAt(d1, i) ELSE d1,
        creditors |-> IF belowEps(ties, c1[j][1], c1[j][2]) THEN RemoveAt(c1, j) ELSE c1,
        transaction |-> [payer |-> debtors[i][1], payee |-> creditors[j][1],
                         amount |-> amount, shown |-> Fmt2(amount)]]

\* Fault variant of prune: the cutoff fires as soon as one solution is known
pruneAs(alpha, beta) == beta < Infinity

\* lines 108 and 110: the cutoff test
prune(alpha, beta) == beta <= alpha

\* lines 75-115.  The loops of lines 88-111 are outerLoop (over i) and innerLoop
\* (over j); st holds bestScore, bestTransactions and beta; ties is how the
\* comparisons with 0.01 go in this call of optimizeTransactions.
RECURSIVE evaluateState(_, _, _, _, _, _, _, _)
RECURSIVE outerLoop(_, _, _, _, _, _, _, _)
RECURSIVE innerLoop(_, _, _, _, _, _, _, _, _)

innerLoop(ties, debtors, creditors, transactions, depth, alpha, i, j, st) ==
    IF j > Len(creditors) THEN st
    ELSE IF debtors[i][1] = creditors[j][1]
    THEN innerLoop(ties, debtors, creditors, transactions, depth, alpha, i, j + 1, st)
    ELSE
        LET mv == Move(debtors, creditors, i, j, ties)
            r == evaluateState(ties, mv.debtors, mv.creditors,
                               Append(transactions, mv.transaction),
                               depth + 1, alpha, st.beta, FALSE)
            better == r.score < st.bestScore
            bestScore == IF better THEN r.score ELSE st.bestScore
            st1 == [bestScore |-> bestScore,
                    bestTransactions |-> IF better THEN r.trans ELSE st.bestTransactions,
                    beta |-> Min(st.beta, bestScore)]
        IN IF prune(alpha, st1.beta) THEN st1
           ELSE innerLoop(ties, debtors, creditors, transactions, depth, alpha, i, j + 1,
                          st1)

outerLoop(ties, debtors, creditors, transactions, depth, alpha, i, st) ==
    IF i > Len(debtors) THEN st
    ELSE
        LET st1 == innerLoop(ties, debtors, creditors, transactions, depth, alpha, i, 1,
                             st)
        IN IF prune(alpha, st1.beta) THEN st1
           ELSE outerLoop(ties, debtors, creditors, transactions, depth, alpha, i + 1,
                          st1)

evaluateState(ties, debtors, creditors, transactions, depth, alpha, beta, maximizing) ==
    IF debtors = <<>> \/ creditors = <<>>
    THEN [score |-> Len(transactions), trans |-> transactions]
    ELSE IF maximizing
    THEN LET st == outerLoop(ties, debtors, creditors, transactions, depth, alpha, 1,
                             [bestScore |-> Infinity,
                              bestTransactions |-> transactions,
                              beta |-> beta])
         IN [score |-> st.bestScore, trans |-> st.bestTransactions]
    ELSE evaluateState(ties, debtors, creditors, transactions, depth, alpha, beta, TRUE)

\* lines 60-118: the list optimizeTransactions(owed) stores
settlementOf(pay, order, owed, ties) ==
    LET bal == snappedBalances(pay, owed, ties)
        debtors == debtorsList(order, bal)
        creditors == creditorsList(order, bal)
    IN IF debtors = <<>> \/ creditors = <<>> THEN <<>>
       ELSE evaluateState(ties, debtors, creditors, <<>>, 0, -Infinity, Infinity,
                          TRUE).trans

\* the call optimizeTransactions(owed), its comparisons with 0.01 going one of the
\* ways of tieChoices
optimizeTransactions(owed, tieChoices) ==
    \E ties \in tieChoices :
        /\ settlementTransactions' = settlementOf(personPayments, personOrder, owed, ties)
        /\ owedAmounts' = owed
        /\ tieBelow' = ties
        /\ optimized' = TRUE
        /\ error' = "none"
        /\ UNCHANGED <<personPayments, personOrder, itemRecords, detailedDebts>>

\* calc.optimizeTransactions(calc.calculateShares()), lines 189-190; when
\* calculateShares raises, the call is the raising CalculateShares above
OptimizeTransactions ==
    /\ ~calculateSharesRaises(itemRecords)
    /\ optimizeTransactions(calculateShares(personPayments, itemRecords), UniformTies)

----------------------------------------------------------------------------
Init ==
    /\ personPayments = EmptyDict
    /\ personOrder = <<>>
    /\ itemRecords = <<>>
    /\ settlementTransactions = <<>>
    /\ detailedDebts = [key \in {} |-> 0]
    /\ owedAmounts = EmptyDict
    /\ tieBelow = NoTies
    /\ optimized = FALSE
    /\ error = "none"

Next == AddPerson \/ AddItem \/ CalculateShares \/ OptimizeTransactions

Spec == Init /\ [][Next]_vars

----------------------------------------------------------------------------
(* The optimizer on arbitrary balances: every name is added by addPerson, and  *)
(* optimizeTransactions is called once with a dict owed of half-cent amounts   *)
(* that sum to zero, so that the balance of a person is -owed[person].         *)

OwedInputs ==
    {owed \in [Names -> {k * Half : k \in (-MaxBal)..MaxBal}] : SumOver(owed, Names) = 0}

InitOpt ==
    /\ personPayments = [n \in Names |-> 0]
    /\ personOrder = NameOrder
    /\ itemRecords = <<>>
    /\ settlementTransactions = <<>>
    /\ detailedDebts = [key \in {} |-> 0]
    /\ owedAmounts \in OwedInputs
    /\ tieBelow = NoTies
    /\ optimized = FALSE
    /\ error = "none"

OptimizeGiven ==
    /\ ~optimized
    /\ optimizeTransactions(owedAmounts, TieChoices)

NextOpt == OptimizeGiven

SpecOpt == InitOpt /\ [][NextOpt]_vars

----------------------------------------------------------------------------
(* Properties of the optimizer (SpecOpt) *)

\* the balances optimizeTransactions computes from its argument, before snapping
inputBalances == netBalances(personPayments, owedAmounts)

\* the lists of line 67 and 68 for the current ledger and argument
currentDebtors ==
    debtorsList(personOrder, snappedBalances(personPayments, owedAmounts, tieBelow))
currentCreditors ==
    creditorsList(personOrder, snappedBalances(personPayments, owedAmounts, tieBelow))

\* one payment applied: the payer's balance + amount, the payee's balance - amount
applyPayment(bal, payer, payee, amount) ==
    [p \in DOMAIN bal |->
        bal[p] + (IF p = payer THEN amount ELSE 0) - (IF p = payee THEN amount ELSE 0)]

RECURSIVE applyTransactions(_, _)
applyTransactions(bal, trans) ==
    IF trans = <<>> THEN bal
    ELSE applyTransactions(
            applyPayment(bal, Head(trans).payer, Head(trans).payee, Head(trans).amount),
            Tail(trans))

\* every balance is below tol in absolute value (tol = 1: every balance is zero)
AllWithin(bal, tol) == \A p \in DOMAIN bal : Abs(bal[p]) < tol

\* the balances are whole multiples of 0.01
WholeCents(bal) == \A p \in DOMAIN bal : bal[p] % Cent = 0

\* C1: for every balance map that sums to zero, the returned transactions applied
\* in order to the input balances leave every balance below 0.01 in absolute
\* value (the amounts applied are the unrounded ones)
ClaimC1 ==
    optimized => AllWithin(applyTransactions(inputBalances, settlementTransactions), EPS)

\* the amounts of the payments of the reference search, in half cents
RefAmounts == {k * Half : k \in 1..MaxBal}

\* Reference search: some list of at most k payments between two different
\* persons leaves every balance below tol
RECURSIVE CanSettle(_, _, _)
CanSettle(bal, k, tol) ==
    \/ AllWithin(bal, tol)
    \/ /\ k > 0
       /\ \E payer \in DOMAIN bal, payee \in DOMAIN bal, amount \in RefAmounts :
            /\ payer # payee
            /\ CanSettle(applyPayment(bal, payer, payee, amount), k - 1, tol)

\* C2 as stated: no list of fewer payments than the returned one drives every
\* balance to within 0.01 of zero
ClaimC2 ==
    (optimized /\ settlementTransactions # <<>>)
        => ~CanSettle(inputBalances, Len(settlementTransactions) - 1, EPS)

\* C2 amended: no list of fewer payments than the returned one drives every balance
\* to exactly zero
TheoremC2 ==
    (optimized /\ settlementTransactions # <<>>)
        => ~CanSettle(inputBalances, Len(settlementTransactions) - 1, 1)

\* two debtors and two creditors of whole cents that settle in two payments, where
\* the first pair the search tries (A pays B) leads to three
WitnessC2 ==
    /\ optimized
    /\ WholeCents(inputBalances)
    /\ Len(settlementTransactions) = 2
    /\ Len(currentDebtors) = 2 /\ Len(currentCreditors) = 2
    /\ inputBalances["A"] < 0 /\ inputBalances["B"] > 0
    /\ inputBalances["A"] + inputBalances["B"] # 0

\* C6: no returned transaction has the same payer and payee; every transaction
\* pays from a person whose snapped balance was negative to another person whose
\* snapped balance was positive
TheoremC6 ==
    optimized =>
        \A k \in 1..Len(settlementTransactions) :
            LET t == settlementTransactions[k]
                bal == snappedBalances(personPayments, owedAmounts, tieBelow)
            IN /\ t.payer # t.payee
               /\ bal[t.payer] < 0
               /\ bal[t.payee] > 0
               /\ t.amount > 0

WitnessC6 ==
    /\ optimized
    /\ Len(settlementTransactions) = 3
    /\ settlementTransactions[1].payer # settlementTransactions[3].payer
    /\ settlementTransactions[1].payee # settlementTransactions[3].payee

\* every candidate step from (debtors, creditors) removes at least one party, and
\* so does every step after it
RECURSIVE StepsShrink(_, _)
StepsShrink(debtors, creditors) ==
    \A i \in 1..Len(debtors), j \in 1..Len(creditors) :
        debtors[i][1] # creditors[j][1] =>
            LET mv == Move(debtors, creditors, i, j, tieBelow)
            IN /\ Len(mv.debtors) + Len(mv.creditors) < Len(debtors) + Len(creditors)
               /\ StepsShrink(mv.debtors, mv.creditors)

MaxOf(S) == IF S = {} THEN 0 ELSE CHOOSE x \in S : \A y \in S : y <= x

\* the number of transactions of the longest branch from (debtors, creditors)
RECURSIVE LongestBranch(_, _)
LongestBranch(debtors, creditors) ==
    IF debtors = <<>> \/ creditors = <<>> THEN 0
    ELSE 1 + MaxOf({LongestBranch(Move(debtors, creditors, i, j, tieBelow).debtors,
                                  Move(debtors, creditors, i, j, tieBelow).creditors) :
                      <<i, j>> \in {e \in (1..Len(debtors)) \X (1..Len(creditors)) :
                                       debtors[e[1]][1] # creditors[e[2]][1]}})

\* C9: every step of the search that emits a transaction removes the debtor or the
\* creditor of that transaction from its list, so no branch, and not the returned
\* list, has more transactions than |debtors| + |creditors| of the initial lists
TheoremC9 ==
    optimized =>
        /\ StepsShrink(currentDebtors, currentCreditors)
        /\ LongestBranch(currentDebtors, currentCreditors)
              <= Len(currentDebtors) + Len(currentCreditors)
        /\ Len(settlementTransactions) <= Len(currentDebtors) + Len(currentCreditors)

\* a search with branches of different lengths, and a transfer of two cents or more
\* between parties that differ by less than 0.01
WitnessC9 ==
    /\ optimized
    /\ Len(currentDebtors) = 2 /\ Len(currentCreditors) = 2
    /\ LongestBranch(currentDebtors, currentCreditors) = 3
    /\ Len(settlementTransactions) = 2
    /\ \E i \in 1..2, j \in 1..2 :
          /\ -currentDebtors[i][2] >= 2 * Cent
          /\ Abs(currentDebtors[i][2] + currentCreditors[j][2]) = Half

----------------------------------------------------------------------------
(* Properties of the ledger (Spec) *)

\* a common item without participants
EqualEmpty(rec) == rec.isCommon /\ DOMAIN rec.peopleInvolved = {}

\* an individual item of total quantity 0
ZeroWeight(rec) == ~rec.isCommon /\ totalQuantity(rec.peopleInvolved) = 0

RECURSIVE SumSeq(_, _)
SumSeq(f, k) == IF k = 0 THEN 0 ELSE f[k] + SumSeq(f, k - 1)

\* the total cost of all item records, and of those of total quantity 0
totalCost == SumSeq([k \in 1..Len(itemRecords) |-> itemRecords[k].cost], Len(itemRecords))
zeroWeightCost ==
    SumSeq([k \in 1..Len(itemRecords) |->
               IF ZeroWeight(itemRecords[k]) THEN itemRecords[k].cost ELSE 0],
           Len(itemRecords))

currentShares == calculateShares(personPayments, itemRecords)

\* the sum over all persons of personPayments[p] - calculateShares()[p]
balanceSum ==
    SumOver(netBalances(personPayments, currentShares), DOMAIN personPayments)

\* C3 as stated: whenever calculateShares returns, the balances sum to zero within
\* 0.01 and the shares sum to the total cost of the records within 0.01
ClaimC3 ==
    ~calculateSharesRaises(itemRecords) =>
        /\ Abs(balanceSum) < EPS
        /\ Abs(SumOver(currentShares, DOMAIN personPayments) - totalCost) < EPS

\* C3 amended: whenever calculateShares returns, the balances sum, within 0.01, to
\* the total cost of the individual items of total quantity 0, and the shares sum
\* to the total cost of the other records
TheoremC3 ==
    ~calculateSharesRaises(itemRecords) =>
        /\ Abs(balanceSum - zeroWeightCost) < EPS
        /\ Abs(SumOver(currentShares, DOMAIN personPayments)
                 - (totalCost - zeroWeightCost)) < EPS

WitnessC3 ==
    /\ Len(itemRecords) = 2
    /\ ZeroWeight(itemRecords[1]) /\ itemRecords[1].cost > 0
    /\ itemRecords[2].isCommon /\ itemRecords[2].cost > 0
    /\ Cardinality(DOMAIN itemRecords[2].peopleInvolved) = 3
    /\ balanceSum # itemRecords[1].cost
    /\ Abs(balanceSum - itemRecords[1].cost) < EPS

RECURSIVE listTotal(_)
listTotal(list) == IF list = <<>> THEN 0 ELSE Abs(Head(list)[2]) + listTotal(Tail(list))

\* the divisor of the division of a record
divisorOf(rec) ==
    IF rec.isCommon THEN Cardinality(DOMAIN rec.peopleInvolved)
    ELSE totalQuantity(rec.peopleInvolved)

\* a bound of the rounding error of the shares of all records: the quotient of a
\* record is off by at most half a unit, and is counted divisor times
roundingSlack ==
    SumSeq([k \in 1..Len(itemRecords) |-> divisorOf(itemRecords[k])], Len(itemRecords))

ClaimC5 ==
    (\E k \in 1..Len(itemRecords) : EqualEmpty(itemRecords[k])) => error = "none"

\* every buyer and participant of every record is a person
RecordsKnown ==
    \A k \in 1..Len(itemRecords) :
        /\ itemRecords[k].buyer \in DOMAIN personPayments
        /\ DOMAIN itemRecords[k].peopleInvolved \subseteq DOMAIN personPayments

\* the cost this step's new records add to the payments of person p
paidInStep(p) ==
    IF Len(itemRecords') > Len(itemRecords) /\ itemRecords'[Len(itemRecords')].buyer = p
    THEN itemRecords'[Len(itemRecords')].cost ELSE 0

\* no person is removed, no total decreases, and a person the step creates has paid
\* nothing but the cost of the item the step records for that buyer
PaymentsStep ==
    /\ DOMAIN personPayments \subseteq DOMAIN personPayments'
    /\ \A p \in DOMAIN personPayments : personPayments'[p] >= personPayments[p]
    /\ \A p \in DOMAIN personPayments' \ DOMAIN personPayments :
          personPayments'[p] = paidInStep(p)
    /\ \A k \in 1..Len(personOrder) : personOrder'[k] = personOrder[k]

\* C7: totalPaid is 0 when a person is created and never decreases, no person is
\* removed, and every buyer and participant of every stored record is a person
TheoremC7 == [](RecordsKnown) /\ [][PaymentsStep]_vars

WitnessC7 ==
    /\ Len(itemRecords) = 2
    /\ optimized
    /\ personOrder = <<"B", "C", "A">>
    /\ personPayments["B"] = 0
    /\ personPayments["C"] > itemRecords[2].cost
    /\ personPayments["A"] = 0

\* the effect of an addItem of an individual item of total quantity 0
ZeroWeightStep ==
    LET rec == itemRecords'[Len(itemRecords')]
        before == IF rec.buyer \in DOMAIN personPayments
                  THEN personPayments[rec.buyer] ELSE 0
    IN (Len(itemRecords') = Len(itemRecords) + 1 /\ ZeroWeight(rec)) =>
          /\ error' = "none"
          /\ personPayments'[rec.buyer] = before + rec.cost
          /\ SubSeq(itemRecords', 1, Len(itemRecords)) = itemRecords
          /\ detailedDebts' = detailedDebts
          /\ \A p \in DOMAIN personPayments' :
                /\ recordShare(rec, p) = 0
                /\ owedAfter(itemRecords', Len(itemRecords'), p)
                      = owedAfter(itemRecords, Len(itemRecords), p)

\* C8: addItem of an individual item of total quantity 0 completes without error,
\* adds the cost to the buyer's totalPaid, appends the record, leaves detailedDebts
\* unchanged, and the record adds nothing to any amount of calculateShares
TheoremC8 == [][ZeroWeightStep]_vars

WitnessC8 ==
    /\ Len(itemRecords) = 2
    /\ ZeroWeight(itemRecords[2])
    /\ itemRecords[2].cost > 0
    /\ Cardinality(DOMAIN itemRecords[2].peopleInvolved) = 2
    /\ itemRecords[2].buyer \notin DOMAIN itemRecords[1].peopleInvolved \cup {itemRecords[1].buyer}
    /\ DOMAIN detailedDebts # {}
    /\ error = "none"
    /\ ~optimized

\* the debts owed to p less the debts p owes
debtNet(p) ==
    SumOver(detailedDebts, {key \in DOMAIN detailedDebts : key[2] = p})
        - SumOver(detailedDebts, {key \in DOMAIN detailedDebts : key[1] = p})

\* no record is an individual item of total quantity 0 or a common item without
\* participants
NoDegenerateRecord ==
    \A k \in 1..Len(itemRecords) :
        ~ZeroWeight(itemRecords[k]) /\ ~EqualEmpty(itemRecords[k])

\* C10 as stated: without such records, the detailed debts net to the balance of
\* every person, and no debt is from a person to the same person
ClaimC10 ==
    NoDegenerateRecord
    => /\ \A p \in DOMAIN personPayments :
             debtNet(p) = personPayments[p] - currentShares[p]
       /\ \A key \in DOMAIN detailedDebts : key[1] # key[2]

\* C10 amended: without such records, the detailed debts net to the balance of
\* every person within 0.01, and no debt is from a person to the same person
TheoremC10 ==
    NoDegenerateRecord
    => /\ \A p \in DOMAIN personPayments :
             Abs(debtNet(p) - (personPayments[p] - currentShares[p])) < EPS
       /\ \A key \in DOMAIN detailedDebts : key[1] # key[2]

\* two items that accumulate a debt of the same pair, the buyer among the
\* participants of one of them
WitnessC10 ==
    /\ Len(itemRecords) = 2
    /\ ~itemRecords[1].isCommon /\ itemRecords[2].isCommon
    /\ itemRecords[1].buyer = itemRecords[2].buyer
    /\ itemRecords[1].buyer \in DOMAIN itemRecords[2].peopleInvolved
    /\ itemRecords[1].cost > 0 /\ itemRecords[2].cost > 0
    /\ \E key \in DOMAIN detailedDebts :
          /\ key[1] \in DOMAIN itemRecords[1].peopleInvolved
          /\ key[1] \in DOMAIN itemRecords[2].peopleInvolved
          /\ detailedDebts[key] > itemRecords[2].cost \div 2
    /\ \A k \in 1..2 : ~ZeroWeight(itemRecords[k])

====
